---- MODULE Spec2Model ----
(***************************************************************************)
(* CKBoxImageEditCommand (ckeditor5-ckbox, ckboximageedit): the command    *)
(* that opens the CKBox image editor dialog on the selected image, waits   *)
(* for the saved asset to be processed on the server and inserts it.       *)
(*                                                                         *)
(* Every step of the model is one run-to-completion task of the event      *)
(* loop: a fired `ckboxImageEditor:*` event with its listener and the      *)
(* low-priority refresh listener, one refresh() call, one change of the    *)
(* model selection, or one status request of the retry loop.               *)
(***************************************************************************)
EXTENDS Integers, Sequences, FiniteSets, Bags

\* ------------------------------------------------------------------------
\* Bounds of the model.
\* ------------------------------------------------------------------------
MaxOpens == 2    \* mountImageEditor calls in one behaviour
MaxSaves == 2    \* save events in one behaviour

\* ------------------------------------------------------------------------
\* Values.
\* ------------------------------------------------------------------------
Null == "null"                 \* null where the value is a string
None == [none |-> TRUE]        \* null where the value is an object
Undefined == [undefined |-> TRUE]   \* what a caught error leaves as the result
Div == "div.ck.ckbox-wrapper"  \* the element createElement() returns

AssetIds == {"A1", "A2"}
ElementNames == {"imageInline", "imageBlock", "table"}

\* metadata.metadataProcessingStatus of a response; Null when it is missing.
Statuses == {Null, "queued", "success", "error"}

\* What an asset's data carries besides its id (dimensions, description,
\* blurhash): the optional placeholder is present in one and absent in the other.
Meta1 == [width |-> 100, blurHash |-> Null]
Meta2 == [width |-> 200, blurHash |-> "hash"]
Metas == {Meta1, Meta2}

\* CKBoxRawAssetDefinition: what the dialog hands to onSave.
Assets == {[data |-> [id |-> "A1", meta |-> Meta1]],
           [data |-> [id |-> "A2", meta |-> Meta2]]}

\* CKBoxRawAssetDataDefinition as the status endpoint answers it for asset `id`.
Responses(id) == [id : {id}, meta : Metas, status : Statuses]

\* The element selection.getSelectedElement() returns, or None.
Elements == [name : ElementNames, ckboxImageId : AssetIds \cup {Null}]
Selections == {None} \cup Elements

\* retry() of ckeditor5-utils: the number of attempts it makes at most.
maxAttempts == 4

VARIABLES
    value,            \* Command#value: the dialog is open
    isEnabled,        \* Command#isEnabled
    _wrapper,         \* the mount point, or Null
    _ckboxImageId,    \* the cached id of the selected image, or Null
    selection,        \* editor.model.document.selection.getSelectedElement()
    bodyWrappers,     \* mount points of this command attached to document.body
    dialog,           \* options of the last mountImageEditor call, or None
    polls,            \* the pending _waitForAssetProcessed() calls, a bag
    mountCalls,       \* window.CKBox.mountImageEditor calls
    mountsSinceClose, \* of which since the last close event
    focusCalls,       \* editor.editing.view.focus() calls
    abortCalls,       \* AbortController#abort() calls
    refreshes,        \* refresh() calls of the event that ran last
    saveCount,        \* save events fired
    savedInDialog,    \* a save event was fired while the dialog was open
    insertCalls,      \* insertImage executions
    lastProcessed,    \* what the processed event that just ran did, or None
    firedBy,          \* the settled wait that fired it, or None
    lastEvent,        \* the event that ran last
    before            \* isEnabled and value as that event found them

vars == <<value, isEnabled, _wrapper, _ckboxImageId, selection, bodyWrappers,
          dialog, polls, mountCalls, mountsSinceClose, focusCalls, abortCalls,
          refreshes, saveCount, savedInDialog, insertCalls, lastProcessed,
          firedBy, lastEvent, before>>

\* The command and what its listeners touch, as one record.
State == [value |-> value, isEnabled |-> isEnabled, _wrapper |-> _wrapper,
          _ckboxImageId |-> _ckboxImageId, selection |-> selection,
          bodyWrappers |-> bodyWrappers, dialog |-> dialog,
          mountCalls |-> mountCalls, mountsSinceClose |-> mountsSinceClose,
          focusCalls |-> focusCalls, abortCalls |-> abortCalls,
          refreshes |-> refreshes, insertCalls |-> insertCalls,
          lastProcessed |-> lastProcessed]

Set(s) ==
    /\ value' = s.value
    /\ isEnabled' = s.isEnabled
    /\ _wrapper' = s._wrapper
    /\ _ckboxImageId' = s._ckboxImageId
    /\ selection' = s.selection
    /\ bodyWrappers' = s.bodyWrappers
    /\ dialog' = s.dialog
    /\ mountCalls' = s.mountCalls
    /\ mountsSinceClose' = s.mountsSinceClose
    /\ focusCalls' = s.focusCalls
    /\ abortCalls' = s.abortCalls
    /\ refreshes' = s.refreshes
    /\ insertCalls' = s.insertCalls
    /\ lastProcessed' = s.lastProcessed

\* ------------------------------------------------------------------------
\* The command.
\* ------------------------------------------------------------------------
_getValue(s) == s._wrapper # Null

isImageElement(el) ==
    el # None /\ (el.name = "imageInline" \/ el.name = "imageBlock")

hasCkboxImageId(el) == el.ckboxImageId # Null

\* refresh() that looks for the attribute on any selected element.
refreshAnyElement(s) ==
    LET selectedElement == s.selection
        v == _getValue(s)
    IN  IF selectedElement # None /\ hasCkboxImageId(selectedElement)
        THEN [s EXCEPT !.value = v, !.isEnabled = TRUE,
                       !._ckboxImageId = selectedElement.ckboxImageId,
                       !.refreshes = @ + 1]
        ELSE [s EXCEPT !.value = v, !.isEnabled = FALSE,
                       !._ckboxImageId = Null,
                       !.refreshes = @ + 1]

\* refresh() that leaves the cached id alone when it disables the command.
refreshKeepsId(s) ==
    LET selectedElement == s.selection
        v == _getValue(s)
    IN  IF isImageElement(selectedElement) /\ hasCkboxImageId(selectedElement)
        THEN [s EXCEPT !.value = v, !.isEnabled = TRUE,
                       !._ckboxImageId = selectedElement.ckboxImageId,
                       !.refreshes = @ + 1]
        ELSE [s EXCEPT !.value = v, !.isEnabled = FALSE,
                       !.refreshes = @ + 1]

\* refresh() that enables the command and does not cache the id.
refreshForgetsId(s) ==
    LET selectedElement == s.selection
        v == _getValue(s)
    IN  IF isImageElement(selectedElement) /\ hasCkboxImageId(selectedElement)
        THEN [s EXCEPT !.value = v, !.isEnabled = TRUE,
                       !.refreshes = @ + 1]
        ELSE [s EXCEPT !.value = v, !.isEnabled = FALSE,
                       !._ckboxImageId = Null,
                       !.refreshes = @ + 1]

refresh(s) ==
    LET selectedElement == s.selection
        v == _getValue(s)
    IN  IF isImageElement(selectedElement) /\ hasCkboxImageId(selectedElement)
        THEN [s EXCEPT !.value = v, !.isEnabled = TRUE,
                       !._ckboxImageId = selectedElement.ckboxImageId,
                       !.refreshes = @ + 1]
        ELSE [s EXCEPT !.value = v, !.isEnabled = FALSE,
                       !._ckboxImageId = Null,
                       !.refreshes = @ + 1]

\* The open listener without the _getValue() test.
openListenerAlways(s) ==
    IF ~s.isEnabled
    THEN s
    ELSE [s EXCEPT !.value = TRUE,
                   !._wrapper = Div,
                   !.bodyWrappers = @ + 1,
                   !.dialog = [assetId |-> s._ckboxImageId],
                   !.mountCalls = @ + 1,
                   !.mountsSinceClose = @ + 1]

\* The `ckboxImageEditor:open` listener.
openListener(s) ==
    IF ~s.isEnabled \/ _getValue(s)
    THEN s
    ELSE [s EXCEPT !.value = TRUE,
                   !._wrapper = Div,
                   !.bodyWrappers = @ + 1,
                   !.dialog = [assetId |-> s._ckboxImageId],
                   !.mountCalls = @ + 1,
                   !.mountsSinceClose = @ + 1]

\* The close listener that returns the focus before it tests the wrapper.
closeListenerFocusFirst(s) ==
    IF s._wrapper = Null
    THEN [s EXCEPT !.focusCalls = @ + 1]
    ELSE [s EXCEPT !._wrapper = Null,
                   !.bodyWrappers = @ - 1,
                   !.focusCalls = @ + 1]

\* The close listener that leaves the focus where it is.
closeListenerNoFocus(s) ==
    IF s._wrapper = Null
    THEN s
    ELSE [s EXCEPT !._wrapper = Null,
                   !.bodyWrappers = @ - 1]

\* The close listener that clears the cached id with the wrapper.
closeListenerClearsId(s) ==
    IF s._wrapper = Null
    THEN s
    ELSE [s EXCEPT !._wrapper = Null,
                   !._ckboxImageId = Null,
                   !.bodyWrappers = @ - 1,
                   !.focusCalls = @ + 1]

\* The `ckboxImageEditor:close` listener.
closeListener(s) ==
    IF s._wrapper = Null
    THEN s
    ELSE [s EXCEPT !._wrapper = Null,
                   !.bodyWrappers = @ - 1,
                   !.focusCalls = @ + 1]

\* An event is fired: its listener runs, then the low-priority listener of
\* `ckboxImageEditor`, which refreshes the command.
openEvent(s) == refresh(openListener(s))

\* A close event with no refresh listener.
closeEventNoRefresh(s) == closeListener(s)

\* A close event whose refresh listener runs before the close listener.
closeEventRefreshFirst(s) == closeListener(refresh(s))

closeEvent(s) == refresh(closeListener(s))

\* prepareImageAssetAttributes() of ckboxcommand: the attributes of the image
\* of an asset, each derived from the asset's data.
prepareImageAssetAttributes(asset) ==
    [imageFallbackUrl |-> <<"url", asset.data.id, asset.data.meta.width>>,
     imageSources |-> <<"sources", asset.data.id, asset.data.meta.width>>,
     imageTextAlternative |-> <<"alt", asset.data.id>>,
     imageWidth |-> asset.data.meta.width,
     imageHeight |-> asset.data.meta.width,
     imagePlaceholder |-> asset.data.meta.blurHash]

\* The `source` the processed listener hands to insertImage.
imageSource(asset) ==
    LET a == prepareImageAssetAttributes(asset)
        base == [src |-> a.imageFallbackUrl, sources |-> a.imageSources,
                 alt |-> a.imageTextAlternative, width |-> a.imageWidth,
                 height |-> a.imageHeight]
    IN  IF a.imagePlaceholder # Null
        THEN [src |-> base.src, sources |-> base.sources, alt |-> base.alt,
              width |-> base.width, height |-> base.height,
              placeholder |-> a.imagePlaceholder]
        ELSE base

\* insertImage: the image of `source` is in the document and selected.
insertImage(s, source, imageType) ==
    [s EXCEPT !.selection = [name |-> imageType, ckboxImageId |-> Null],
              !.insertCalls = @ + 1]

\* The processed listener that tags the image with the id the command cached.
processedListenerCachedId(s, asset, imageType) ==
    LET source == imageSource(asset)
        inserted == insertImage(s, source, imageType)
        selectedImageElement == inserted.selection
    IN  [inserted EXCEPT
            !.selection = [selectedImageElement EXCEPT
                              !.ckboxImageId = s._ckboxImageId],
            !.lastProcessed = [source |-> source,
                               changeBlocks |-> 1,
                               insertedIn |-> 1,
                               attributeSetIn |-> 1]]

\* The processed listener that removes the mount point as well.
processedListenerClosing(s, asset, imageType) ==
    LET source == imageSource(asset)
        inserted == insertImage(s, source, imageType)
        selectedImageElement == inserted.selection
    IN  [inserted EXCEPT
            !.selection = [selectedImageElement EXCEPT
                              !.ckboxImageId = asset.data.id],
            !._wrapper = Null,
            !.bodyWrappers = IF s._wrapper = Null THEN @ ELSE @ - 1,
            !.lastProcessed = [source |-> source,
                               changeBlocks |-> 1,
                               insertedIn |-> 1,
                               attributeSetIn |-> 1]]

\* The `ckboxImageEditor:processed` listener. It opens one model.change()
\* block, the first of the event, and in it executes insertImage and sets
\* the attribute on the element that is selected then.
processedListener(s, asset, imageType) ==
    LET source == imageSource(asset)
        inserted == insertImage(s, source, imageType)
        selectedImageElement == inserted.selection
    IN  [inserted EXCEPT
            !.selection = [selectedImageElement EXCEPT
                              !.ckboxImageId = asset.data.id],
            !.lastProcessed = [source |-> source,
                               changeBlocks |-> 1,
                               insertedIn |-> 1,
                               attributeSetIn |-> 1]]

\* ------------------------------------------------------------------------
\* The wait for the asset.
\* ------------------------------------------------------------------------
\* _getAssetStatusFromServer(), from the answer of sendHttpRequest() on: it
\* throws, or returns the response.
_getAssetStatusFromServer(response) ==
    LET status == response.status
    IN  IF status = Null \/ status = "queued"
        THEN [threw |-> TRUE, value |-> Undefined]
        ELSE [threw |-> FALSE, value |-> response]

\* retry() of ckeditor5-utils, one attempt of it: the callback has returned
\* `outcome` on the attempt after `attempt` failed ones. It resolves, rejects
\* or calls the callback again after a delay.
retry(attempt, outcome) ==
    IF ~outcome.threw
    THEN [done |-> TRUE, rejected |-> FALSE, value |-> outcome.value, attempt |-> attempt]
    ELSE IF attempt + 1 >= maxAttempts
         THEN [done |-> TRUE, rejected |-> TRUE, value |-> Undefined, attempt |-> attempt + 1]
         ELSE [done |-> FALSE, rejected |-> FALSE, value |-> Undefined, attempt |-> attempt + 1]

\* The endpoint answered with a status that is missing or "queued".
isNotReady(response) == response.status \in {Null, "queued"}

\* The wait a save event starts: its asset, the attempts of retry() that
\* failed, the status requests sent, the answers that were not ready, and once
\* it has settled the answer that settled it and the value it resolved with.
saveListener(asset) ==
    [asset |-> asset, attempt |-> 0, requests |-> 1, notReady |-> 0,
     last |-> None, settled |-> FALSE, result |-> None]

\* _waitForAssetProcessed() that awaits retry() and returns nothing.
_waitForAssetProcessedNoReturn(p, response) ==
    LET r == retry(p.attempt, _getAssetStatusFromServer(response))
        n == IF isNotReady(response) THEN p.notReady + 1 ELSE p.notReady
    IN  IF r.done
        THEN [p EXCEPT !.attempt = r.attempt,
                       !.notReady = n,
                       !.last = response,
                       !.settled = TRUE,
                       !.result = Undefined]
        ELSE [p EXCEPT !.attempt = r.attempt,
                       !.notReady = n,
                       !.requests = @ + 1]

\* _waitForAssetProcessed() that answers the error of retry() with another
\* retry().
_waitForAssetProcessedAgain(p, response) ==
    LET r == retry(p.attempt, _getAssetStatusFromServer(response))
        n == IF isNotReady(response) THEN p.notReady + 1 ELSE p.notReady
    IN  IF r.done /\ ~r.rejected
        THEN [p EXCEPT !.attempt = r.attempt,
                       !.notReady = n,
                       !.last = response,
                       !.settled = TRUE,
                       !.result = r.value]
        ELSE [p EXCEPT !.attempt = IF r.done THEN 0 ELSE r.attempt,
                       !.notReady = n,
                       !.requests = @ + 1]

\* _waitForAssetProcessed() with no try and catch: the rejection of retry()
\* is its own, its `then` callback never runs and no request follows.
_waitForAssetProcessedNoCatch(p, response) ==
    LET r == retry(p.attempt, _getAssetStatusFromServer(response))
        n == IF isNotReady(response) THEN p.notReady + 1 ELSE p.notReady
    IN  IF r.done /\ r.rejected
        THEN [p EXCEPT !.attempt = r.attempt,
                       !.notReady = n]
        ELSE IF r.done
             THEN [p EXCEPT !.attempt = r.attempt,
                            !.notReady = n,
                            !.last = response,
                            !.settled = TRUE,
                            !.result = r.value]
             ELSE [p EXCEPT !.attempt = r.attempt,
                            !.notReady = n,
                            !.requests = @ + 1]

\* _waitForAssetProcessed(), one answer on: the error of retry() is caught.
_waitForAssetProcessed(p, response) ==
    LET r == retry(p.attempt, _getAssetStatusFromServer(response))
        n == IF isNotReady(response) THEN p.notReady + 1 ELSE p.notReady
    IN  IF r.done
        THEN [p EXCEPT !.attempt = r.attempt,
                       !.notReady = n,
                       !.last = response,
                       !.settled = TRUE,
                       !.result = IF r.rejected THEN Undefined ELSE r.value]
        ELSE [p EXCEPT !.attempt = r.attempt,
                       !.notReady = n,
                       !.requests = @ + 1]

Init ==
    /\ value = FALSE
    /\ isEnabled = FALSE
    /\ _wrapper = Null
    /\ _ckboxImageId = Null
    /\ selection = None
    /\ bodyWrappers = 0
    /\ dialog = None
    /\ polls = EmptyBag
    /\ mountCalls = 0
    /\ mountsSinceClose = 0
    /\ focusCalls = 0
    /\ abortCalls = 0
    /\ refreshes = 0
    /\ saveCount = 0
    /\ savedInDialog = FALSE
    /\ insertCalls = 0
    /\ lastProcessed = None
    /\ firedBy = None
    /\ lastEvent = "init"
    /\ before = [isEnabled |-> FALSE, isOpen |-> FALSE]

\* What an event finds when it is fired.
Found == [isEnabled |-> isEnabled, isOpen |-> _wrapper # Null]

\* A task begins: nothing of the last one is left.
Forget(s) == [s EXCEPT !.lastProcessed = None, !.refreshes = 0]

\* The selection of the document changes.
Select ==
    /\ \E el \in Selections :
          /\ el # selection
          /\ Set(Forget([State EXCEPT !.selection = el]))
    /\ lastEvent' = "select"
    /\ before' = Found
    /\ firedBy' = None
    /\ UNCHANGED <<polls, saveCount, savedInDialog>>

\* refresh() is called.
Refresh ==
    /\ Set(refresh(Forget(State)))
    /\ lastEvent' = "refresh"
    /\ before' = Found
    /\ firedBy' = None
    /\ UNCHANGED <<polls, saveCount, savedInDialog>>

\* execute(): `ckboxImageEditor:open` is fired.
Open ==
    /\ mountCalls < MaxOpens
    /\ Set(openEvent(Forget(State)))
    /\ lastEvent' = "open"
    /\ before' = Found
    /\ firedBy' = None
    /\ UNCHANGED <<polls, saveCount, savedInDialog>>

\* A close event that aborts the pending waits.
CloseAborting ==
    /\ Set([closeEvent(Forget(State)) EXCEPT
               !.mountsSinceClose = 0,
               !.abortCalls = @ + BagCardinality(polls)])
    /\ polls' = EmptyBag
    /\ lastEvent' = "close"
    /\ before' = Found
    /\ firedBy' = None
    /\ UNCHANGED <<saveCount, savedInDialog>>

\* onClose: `ckboxImageEditor:close` is fired.
Close ==
    /\ Set([closeEvent(Forget(State)) EXCEPT !.mountsSinceClose = 0])
    /\ lastEvent' = "close"
    /\ before' = Found
    /\ firedBy' = None
    /\ UNCHANGED <<polls, saveCount, savedInDialog>>

\* onSave: `ckboxImageEditor:save` is fired with the asset of the dialog. The
\* listener starts the wait, whose first status request leaves at once.
Save ==
    /\ saveCount < MaxSaves
    /\ \E asset \in Assets : polls' = polls (+) SetToBag({saveListener(asset)})
    /\ saveCount' = saveCount + 1
    /\ savedInDialog' = (savedInDialog \/ _wrapper # Null)
    /\ Set(refresh(Forget(State)))
    /\ lastEvent' = "save"
    /\ before' = Found
    /\ firedBy' = None

\* What sendHttpRequest() can answer the status request of wait p with (the
\* endpoint of the model always answers): one answer for the one request that
\* has no answer yet.
Answers(p) ==
    IF p.requests > p.attempt THEN Responses(p.asset.data.id) ELSE {}

\* The answer to the status request of a wait arrives, the attempt fails and
\* retry() has attempts left: the next request leaves after the delay.
PollAttempt(p) ==
    /\ \E response \in Answers(p) :
          LET w == _waitForAssetProcessed(p, response)
          IN  /\ ~w.settled
              /\ polls' = (polls (-) SetToBag({p})) (+) SetToBag({w})
    /\ UNCHANGED <<value, isEnabled, _wrapper, _ckboxImageId, selection,
                   bodyWrappers, dialog, mountCalls, mountsSinceClose,
                   focusCalls, abortCalls, refreshes, saveCount, savedInDialog,
                   insertCalls, lastProcessed, firedBy, lastEvent, before>>

\* The answer to the status request of a wait arrives and settles the wait:
\* in the same task its `then` callback fires `ckboxImageEditor:processed`
\* with the asset of the save event.
Processed(p) ==
    /\ \E response \in Answers(p) :
          LET w == _waitForAssetProcessed(p, response)
          IN  /\ w.settled
              /\ firedBy' = w
    /\ \E imageType \in {"imageInline", "imageBlock"} :
          Set(refresh(processedListener(Forget(State), p.asset, imageType)))
    /\ polls' = polls (-) SetToBag({p})
    /\ lastEvent' = "processed"
    /\ before' = Found
    /\ UNCHANGED <<saveCount, savedInDialog>>

Next ==
    \/ Select
    \/ Refresh
    \/ Open
    \/ Close
    \/ Save
    \/ \E p \in BagToSet(polls) : PollAttempt(p)
    \/ \E p \in BagToSet(polls) : Processed(p)

Spec == Init /\ [][Next]_vars

\* The waits alone: save events and the answers to the status requests, no
\* other event in between. Every status request is answered and the event
\* loop runs the task of the answer, so the pending waits are not left alone
\* for ever.
PollStep == \E p \in BagToSet(polls) : PollAttempt(p) \/ Processed(p)

WaitNext ==
    \/ Save
    \/ \E p \in BagToSet(polls) : PollAttempt(p)
    \/ \E p \in BagToSet(polls) : Processed(p)

WaitSpec == Init /\ [][WaitNext]_vars /\ WF_vars(PollStep)

\* ------------------------------------------------------------------------
\* The command and its dialog.
\* ------------------------------------------------------------------------
\* The events that end with a refresh, and refresh() itself.
Refreshing == {"refresh", "open", "close", "save", "processed"}

\* An image element that carries a ckboxImageId attribute.
AttributedImage(el) ==
    /\ el # None
    /\ el.name \in {"imageInline", "imageBlock"}
    /\ el.ckboxImageId # Null

\* C1: after any refresh the command is enabled if and only if the selected
\* element is an imageInline or imageBlock with a ckboxImageId attribute, and
\* an open event fired while the command is disabled creates no mount point
\* and calls mountImageEditor not at all.
C1_EnabledOnlyOnAttributedImage ==
    /\ lastEvent \in Refreshing => (isEnabled <=> AttributedImage(selection))
    /\ ~isEnabled =>
          LET s == openEvent(State)
          IN  /\ s._wrapper = _wrapper
              /\ s.bodyWrappers = bodyWrappers
              /\ s.mountCalls = mountCalls
              /\ s.dialog = dialog

\* An open event was fired with a table that carries the attribute selected,
\* found the command disabled and nothing has ever been mounted.
C1_Witness ==
    /\ lastEvent = "open"
    /\ ~before.isEnabled
    /\ selection \in Elements
    /\ selection.name = "table"
    /\ selection.ckboxImageId # Null
    /\ ~isEnabled
    /\ mountCalls = 0
    /\ _wrapper = Null

\* C2: an open event fired while the dialog is open changes nothing, so the
\* mount point is created and mountImageEditor called at most once between
\* two close events and at most one mount point is in the document.
C2_OneMountPoint ==
    /\ mountsSinceClose <= 1
    /\ bodyWrappers <= 1
    /\ _wrapper # Null => openListener(State) = State

\* An open event was fired on the enabled command with the dialog open.
C2_Witness ==
    /\ lastEvent = "open"
    /\ before.isOpen
    /\ before.isEnabled
    /\ mountCalls = 1
    /\ bodyWrappers = 1
    /\ _wrapper # Null

\* C3: whatever the state, a close event leaves no mount point (none in the
\* document, _wrapper null) and value false, and a second close event on
\* what the first one left changes nothing: no removal, no focus call.
C3_CloseIdempotent ==
    /\ lastEvent = "close" => (_wrapper = Null /\ ~value /\ bodyWrappers = 0)
    /\ LET s == closeEvent(Forget(State))
       IN  /\ s._wrapper = Null
           /\ ~s.value
           /\ s.bodyWrappers = 0
           /\ closeEvent(Forget(s)) = s

\* A close event found the dialog open and closed it.
C3_Witness ==
    /\ lastEvent = "close"
    /\ before.isOpen
    /\ _wrapper = Null
    /\ ~value
    /\ focusCalls = 1

\* C4: as long as no save event was fired insertImage is never executed; it
\* is executed once for each wait of a save event that has settled and by
\* nothing else; a close event calls view.focus() once when it finds the
\* dialog open and not at all otherwise, so the focus was returned once for
\* each dialog that was closed.
C4_NoInsertWithoutSave ==
    /\ saveCount = 0 => insertCalls = 0
    /\ insertCalls + BagCardinality(polls) = saveCount
    /\ closeEvent(State).insertCalls = insertCalls
    /\ openEvent(State).insertCalls = insertCalls
    /\ closeEvent(State).focusCalls =
          focusCalls + (IF _wrapper # Null THEN 1 ELSE 0)
    /\ focusCalls = mountCalls - bodyWrappers

\* The dialog was opened and closed, and no save event was ever fired.
C4_Witness ==
    /\ lastEvent = "close"
    /\ before.isOpen
    /\ saveCount = 0
    /\ mountCalls = 1
    /\ focusCalls = 1
    /\ insertCalls = 0
    /\ bodyWrappers = 0

\* ------------------------------------------------------------------------
\* The wait for the asset.
\* ------------------------------------------------------------------------
\* The data of a status response, as the asset it describes.
AsAsset(response) == [data |-> [id |-> response.id, meta |-> response.meta]]

\* C5: a wait that the endpoint answered N times with a missing or "queued"
\* status and then with "success", N + 1 being within the attempts of
\* retry(), has sent N + 1 status requests and resolves with the last, the
\* success response.
C5_ResolvesWithSuccessResponse ==
    (lastEvent = "processed" /\ firedBy.last.status = "success") =>
        /\ firedBy.requests = firedBy.notReady + 1
        /\ firedBy.requests <= maxAttempts
        /\ firedBy.result = firedBy.last

\* A wait was answered "success" on the last attempt retry() makes.
C5_Witness ==
    /\ lastEvent = "processed"
    /\ firedBy.last.status = "success"
    /\ firedBy.notReady = maxAttempts - 1
    /\ firedBy.requests = maxAttempts
    /\ firedBy.result = firedBy.last

\* C6: no wait sends more status requests than retry() makes attempts; every
\* answer settles the wait or makes it send its next request; a wait that was
\* never answered with a ready status settles with its request number
\* maxAttempts; and every wait settles, so that each save event is answered
\* by a processed event in the end.
C6_BoundedRetry ==
    /\ [](\A p \in BagToSet(polls) :
            /\ p.requests <= maxAttempts
            /\ \A response \in Answers(p) :
                  LET w == _waitForAssetProcessed(p, response)
                  IN  w.settled \/ w.requests = p.requests + 1)
    /\ [](lastEvent = "processed" =>
            /\ firedBy.requests <= maxAttempts
            /\ isNotReady(firedBy.last) =>
                  /\ firedBy.requests = maxAttempts
                  /\ firedBy.notReady = maxAttempts)
    /\ \A k \in 1..MaxSaves : (saveCount >= k) ~> (insertCalls >= k)

\* A wait was answered "queued" to the last attempt and has settled.
C6_Witness ==
    /\ lastEvent = "processed"
    /\ firedBy.last.status = "queued"
    /\ firedBy.notReady = maxAttempts
    /\ firedBy.requests = maxAttempts
    /\ firedBy.result = Undefined

\* C7: when the dialog was opened and the wait of a save event ends on a
\* success response, insertImage is executed once, with the attributes of
\* that response.
C7_InsertsSuccessResponse ==
    (lastEvent = "processed" /\ mountCalls > 0
        /\ firedBy.last.status = "success") =>
        /\ lastProcessed.source = imageSource(AsAsset(firedBy.last))
        /\ insertCalls + BagCardinality(polls) = saveCount

\* C8: after a processed event for the save of asset X the selected element
\* carries ckboxImageId = X, and insertImage and the attribute were written
\* in the one change block the listener opened.
C8_SelectedImageTagged ==
    lastEvent = "processed" =>
        /\ selection \in Elements
        /\ selection.ckboxImageId = firedBy.asset.data.id
        /\ lastProcessed.changeBlocks = 1
        /\ lastProcessed.insertedIn = lastProcessed.attributeSetIn

\* The image A1 was opened in the dialog, the asset A2 saved and inserted.
C8_Witness ==
    /\ lastEvent = "processed"
    /\ dialog = [assetId |-> "A1"]
    /\ firedBy.asset.data.id = "A2"
    /\ selection \in Elements
    /\ selection.ckboxImageId = "A2"
    /\ _ckboxImageId = "A2"

\* C9: a processed event is fired only after a status response of the wait
\* reported a status that is neither missing nor "queued".
C9_ProcessedOnlyWhenReady ==
    lastEvent = "processed" => ~isNotReady(firedBy.last)

\* C10: a missing or "queued" status makes the attempt fail and be retried,
\* and no status but "success" makes the wait end with a response.
C10_OnlySuccessEndsWait ==
    /\ \A p \in BagToSet(polls) : p.notReady = p.attempt
    /\ lastEvent = "processed" =>
          /\ isNotReady(firedBy.last) => firedBy.result = Undefined
          /\ firedBy.result # Undefined => firedBy.result.status = "success"

\* ------------------------------------------------------------------------
\* The state of the command.
\* ------------------------------------------------------------------------
\* value agrees with the mount point.
Agrees(s) == s.value <=> (s._wrapper # Null)

\* C11: with an event, its listener and the refresh that follows it taken as
\* one step, and a refresh() call as one step, value is true exactly when
\* _wrapper is not null, in every state and after whatever step comes next.
C11_ValueAgreesWithWrapper ==
    /\ value <=> (_wrapper # Null)
    /\ Agrees(openEvent(Forget(State)))
    /\ Agrees(closeEvent(Forget(State)))
    /\ Agrees(refresh(Forget(State)))

\* An open event found the command enabled and closed, and mounted the dialog.
C11_Witness ==
    /\ lastEvent = "open"
    /\ before.isEnabled
    /\ ~before.isOpen
    /\ value
    /\ _wrapper # Null

\* C12 as stated: after a processed event the mount point is removed and
\* null and value is false.
C12_ProcessedCloses ==
    lastEvent = "processed" => (_wrapper = Null /\ ~value /\ bodyWrappers = 0)

\* C12 as amended: a processed event leaves the mount point as it found it,
\* in the document or not, and value with it; it returns no focus.
C12_ProcessedLeavesDialog ==
    /\ lastEvent = "processed" =>
          /\ (_wrapper # Null) <=> before.isOpen
          /\ value <=> before.isOpen
          /\ bodyWrappers = (IF before.isOpen THEN 1 ELSE 0)
    /\ \A asset \in Assets, imageType \in {"imageInline", "imageBlock"} :
          LET s == refresh(processedListener(Forget(State), asset, imageType))
          IN  /\ s._wrapper = _wrapper
              /\ s.bodyWrappers = bodyWrappers
              /\ s.focusCalls = focusCalls
              /\ s.value <=> (_wrapper # Null)

\* A processed event found the dialog open and left it open.
C12_Witness ==
    /\ lastEvent = "processed"
    /\ before.isOpen
    /\ _wrapper # Null
    /\ value
    /\ bodyWrappers = 1
    /\ insertCalls = 1

\* C13: a close event aborts nothing and cancels no wait: every wait of a
\* save event stays pending until its processed event, so a wait that was
\* started in the dialog fires processed, and insertImage runs, after the
\* dialog was closed.
C13_CloseCancelsNoWait ==
    /\ abortCalls = 0
    /\ closeEvent(Forget(State)).abortCalls = abortCalls
    /\ insertCalls + BagCardinality(polls) = saveCount

\* The one dialog was opened, a save event fired in it, the dialog closed,
\* and then the wait settled and the image was inserted.
C13_Witness ==
    /\ lastEvent = "processed"
    /\ ~before.isOpen
    /\ _wrapper = Null
    /\ savedInDialog
    /\ saveCount = 1
    /\ mountCalls = 1
    /\ focusCalls = 1
    /\ insertCalls = 1

\* C14: at most one wait is pending at any time.
C14_OnePollInFlight == BagCardinality(polls) <= 1

\* What refresh() is to cache for a selection.
IdOf(el) == IF AttributedImage(el) THEN el.ckboxImageId ELSE Null

\* C15: after a refresh _ckboxImageId is the ckboxImageId attribute of the
\* selected element when that is an imageInline or imageBlock with the
\* attribute and null otherwise, and refresh() computes the same isEnabled
\* and _ckboxImageId for a selection whatever was cached before.
C15_IdFromSelectionAlone ==
    /\ lastEvent \in Refreshing => _ckboxImageId = IdOf(selection)
    /\ \A id \in AssetIds \cup {Null}, enabled \in BOOLEAN :
          LET r == refresh([State EXCEPT !._ckboxImageId = id,
                                         !.isEnabled = enabled])
          IN  /\ r._ckboxImageId = IdOf(selection)
              /\ r.isEnabled = AttributedImage(selection)
              /\ refresh(r)._ckboxImageId = r._ckboxImageId
              /\ refresh(r).isEnabled = r.isEnabled

\* refresh() found the command enabled on a stale id and cleared it.
C15_Witness ==
    /\ lastEvent = "refresh"
    /\ before.isEnabled
    /\ ~AttributedImage(selection)
    /\ ~isEnabled
    /\ _ckboxImageId = Null

\* C16 as stated: after a close event _ckboxImageId is null.
C16_CloseClearsId == lastEvent = "close" => _ckboxImageId = Null

\* C16 as amended: the close listener leaves _ckboxImageId alone and the
\* refresh that follows caches the id of the selection: after a close event
\* _ckboxImageId is null only when no image with the attribute is selected.
C16_CloseRefreshesId ==
    /\ lastEvent = "close" => _ckboxImageId = IdOf(selection)
    /\ closeListener(State)._ckboxImageId = _ckboxImageId

\* The dialog was closed with its image still selected: the id is cached.
C16_Witness ==
    /\ lastEvent = "close"
    /\ before.isOpen
    /\ AttributedImage(selection)
    /\ _ckboxImageId = selection.ckboxImageId
    /\ isEnabled

\* C17: each open, close, save and processed event calls refresh() once,
\* after its own listener: value and isEnabled after the event are those of
\* the state the listener left, and after a save event the wait it started
\* is still pending.
C17_OneRefreshAfterListener ==
    /\ lastEvent \in {"open", "close", "save", "processed"} =>
          /\ refreshes = 1
          /\ value <=> (_wrapper # Null)
          /\ isEnabled <=> AttributedImage(selection)
    /\ lastEvent = "processed" =>
          /\ isEnabled
          /\ _ckboxImageId = firedBy.asset.data.id
    /\ lastEvent = "save" => polls # EmptyBag
    /\ closeEvent(Forget(State)).refreshes = 1
    /\ openEvent(Forget(State)).refreshes = 1
    /\ ~closeEvent(Forget(State)).value

\* A processed event ran with nothing selected and a stale disabled command:
\* the refresh saw the image the listener inserted.
C17_Witness ==
    /\ lastEvent = "processed"
    /\ ~before.isEnabled
    /\ refreshes = 1
    /\ isEnabled
    /\ AttributedImage(selection)

\* C18: every wait of a save event fires one processed event with the asset
\* of the save event, which the listener inserts, whether the wait resolved
\* with a response or retry() gave up; and as every status request is
\* answered, a pending wait for an asset leads to the processed event of
\* that asset.
C18_SaveLeadsToProcessed ==
    /\ [](insertCalls + BagCardinality(polls) = saveCount)
    /\ [](lastEvent = "processed" =>
            /\ firedBy.asset \in Assets
            /\ lastProcessed.source = imageSource(firedBy.asset))
    /\ \A asset \in Assets :
          (\E p \in BagToSet(polls) : p.asset = asset)
              ~> (lastEvent = "processed" /\ firedBy.asset = asset)

\* retry() gave up on the wait for A2, and processed was fired with A2.
C18_Witness ==
    /\ lastEvent = "processed"
    /\ firedBy.result = Undefined
    /\ firedBy.asset.data.id = "A2"
    /\ lastProcessed.source = imageSource(firedBy.asset)
    /\ insertCalls = 1
    /\ saveCount = 1

\* C19: the command is never enabled with _ckboxImageId null; whenever the
\* dialog is mounted its assetId is not null and is the id the last refresh
\* cached, the ckboxImageId attribute of the image selected then.
C19_MountedWithCachedId ==
    /\ isEnabled => _ckboxImageId # Null
    /\ dialog # None => dialog.assetId \in AssetIds
    /\ (isEnabled /\ _wrapper = Null) =>
          LET s == openListener(State)
          IN  /\ s.dialog.assetId = _ckboxImageId
              /\ lastEvent \in Refreshing =>
                    /\ AttributedImage(selection)
                    /\ s.dialog.assetId = selection.ckboxImageId
    /\ (lastEvent = "open" /\ before.isEnabled /\ ~before.isOpen) =>
          /\ dialog # None
          /\ _wrapper # Null

\* The image A2 was selected and refreshed, the selection then dropped with
\* no refresh, and the open event mounted the dialog on A2.
C19_Witness ==
    /\ lastEvent = "open"
    /\ before.isEnabled
    /\ ~before.isOpen
    /\ dialog = [assetId |-> "A2"]
    /\ selection = None
    /\ ~isEnabled
    /\ _wrapper # Null
====
